---------------------------- MODULE Spec2Model ----------------------------
(***************************************************************************)
(* Model of timg's src/image-source.cc:                                    *)
(*   ImageSource::CalcScaleToFitDisplay  (display-fit geometry)            *)
(*   ImageSource::Create                 (ordered decoder probing)         *)
(*   ImageSource::FormatFromParameters   (title templating)                *)
(*   HasAPNGHeader                       (PNG chunk scan)                  *)
(*                                                                         *)
(* The geometry code computes in IEEE-754 binary32 ("float").  The model   *)
(* carries floats as <<m, e>> with value m * 2^e, m either 0 or a 24 bit   *)
(* significand in [2^23, 2^24), and rounds every operation to nearest,     *)
(* ties to even, as the hardware does (FLT_EVAL_METHOD == 0).  All values  *)
(* that occur are non-negative and far from the exponent limits.           *)
(***************************************************************************)
EXTENDS Integers, Sequences, FiniteSets, TLC

VARIABLES
    fit_called, \* CalcScaleToFitDisplay: whether the call has been made
    args,       \* CalcScaleToFitDisplay: the arguments of the call
    res         \* CalcScaleToFitDisplay: out-parameters, return value, path taken

fitVars == <<fit_called, args, res>>

-----------------------------------------------------------------------------
(* binary32 arithmetic *)

P23 == 2^23
P24 == 2^24

FZero == <<0, 0>>

\* m * 2^e with 0 < m < 2^24 shifted left until the significand has 24 bits
RECURSIVE ShiftUp(_, _, _)
ShiftUp(m, e, s) ==
    IF s = 0 THEN <<m, e>>
    ELSE IF m < 2^(24 - s) THEN ShiftUp(m * 2^s, e - s, s \div 2)
    ELSE ShiftUp(m, e, s \div 2)

\* q or q + 1, by round-to-nearest-even on the remainder r of a division by d
RoundNearestEven(q, r, d) ==
    IF 2 * r > d \/ (2 * r = d /\ q % 2 = 1) THEN q + 1 ELSE q

\* the float nearest to m * 2^e, 0 <= m < 2^31
FNormalize(m, e) ==
    IF m = 0 THEN FZero
    ELSE IF m < P24 THEN ShiftUp(m, e, 16)
    ELSE LET s == CHOOSE k \in 1..7 : m \div 2^k < P24 /\ m \div 2^(k - 1) >= P24
             q == RoundNearestEven(m \div 2^s, m % 2^s, 2^s)
         IN  IF q = P24 THEN <<P23, e + s + 1>> ELSE <<q, e + s>>

\* (float) n for an int 0 <= n < 2^24: exact
I2F(n) == FNormalize(n, 0)

FOne == I2F(1)

\* the significand without its trailing zero bits, and their number
RECURSIVE StripZeros(_, _, _)
StripZeros(m, k, s) ==
    IF s = 0 THEN <<m, k>>
    ELSE IF m % 2^s = 0 THEN StripZeros(m \div 2^s, k + s, s \div 2)
    ELSE StripZeros(m, k, s \div 2)

\* a * b, rounded.  The exact product of the stripped significands must stay
\* below 2^31 for TLC; it does when one factor is a small int.
FMul(a, b) ==
    IF a[1] = 0 \/ b[1] = 0 THEN FZero
    ELSE LET sa == StripZeros(a[1], 0, 16)
             sb == StripZeros(b[1], 0, 16)
         IN  FNormalize(sa[1] * sb[1], a[2] + sa[2] + b[2] + sb[2])

\* long division, `bits` quotient bits at a time: <<quotient, remainder>>
RECURSIVE DivDigits(_, _, _, _)
DivDigits(q, r, d, bits) ==
    IF bits = 0 THEN <<q, r>>
    ELSE LET n == IF bits >= 6 THEN 6 ELSE bits
         IN  DivDigits(q * 2^n + (r * 2^n) \div d, (r * 2^n) % d, d, bits - n)

\* a / b, rounded (b # 0)
FDiv(a, b) ==
    IF a[1] = 0 THEN FZero
    ELSE LET ge == a[1] >= b[1]
             qr == IF ge THEN DivDigits(1, a[1] - b[1], b[1], 23)
                         ELSE DivDigits(0, a[1], b[1], 24)
             q  == RoundNearestEven(qr[1], qr[2], b[1])
             e  == a[2] - b[2] - (IF ge THEN 23 ELSE 24)
         IN  IF q = P24 THEN <<P23, e + 1>> ELSE <<q, e>>

FLt(a, b) ==
    IF b[1] = 0 THEN FALSE
    ELSE IF a[1] = 0 THEN TRUE
    ELSE a[2] < b[2] \/ (a[2] = b[2] /\ a[1] < b[1])

FGt(a, b) == FLt(b, a)

\* (int) x: truncation toward zero
F2I(a) ==
    IF a[2] >= 0 THEN a[1] * 2^a[2]
    ELSE IF -a[2] >= 24 THEN 0
    ELSE a[1] \div 2^(-a[2])

\* (int) roundf(x): nearest integer, halfway cases away from zero
RoundF(a) ==
    IF a[2] >= 0 THEN a[1] * 2^a[2]
    ELSE IF -a[2] > 24 THEN 0
    ELSE (a[1] + 2^(-a[2] - 1)) \div 2^(-a[2])

\* floor(x) of a non-negative float, as an integer
FloorF(a) == F2I(a)


-----------------------------------------------------------------------------
(* ImageSource::CalcScaleToFitDisplay *)

\* DisplayOptions as CalcScaleToFitDisplay reads it
DisplayOptions(w, h, fw, fh, up, upi, ws, cx, cy) ==
    [width |-> w, height |-> h, fill_width |-> fw, fill_height |-> fh,
     upscale |-> up, upscale_integer |-> upi, width_stretch |-> ws,
     cell_x_px |-> cx, cell_y_px |-> cy]

kMaxAcceptFactor == I2F(5)

\* the working copy of the options, swapped when fitting a rotated image
RotateOptions(orig_options, fit_in_rotated) ==
    IF fit_in_rotated
    THEN [orig_options EXCEPT
             !.width = orig_options.height,
             !.height = orig_options.width,
             !.fill_width = orig_options.fill_height,
             !.fill_height = orig_options.fill_width,
             !.width_stretch = FDiv(FOne, orig_options.width_stretch)]
    ELSE orig_options

\* width_stretch clamped to [1 / kMaxAcceptFactor, kMaxAcceptFactor]
ClampStretch(stretch) ==
    LET upper == IF FGt(stretch, kMaxAcceptFactor) THEN kMaxAcceptFactor
                 ELSE stretch
        lowest == FDiv(FOne, kMaxAcceptFactor)
    IN  IF FLt(upper, lowest) THEN lowest ELSE upper

\* the box with the stretch applied: "pretend to have less space"
StretchBox(options, width_stretch) ==
    IF FGt(width_stretch, FOne)
    THEN [options EXCEPT
             !.width = F2I(FDiv(I2F(options.width), width_stretch))]
    ELSE [options EXCEPT
             !.height = F2I(FMul(I2F(options.height), width_stretch))]

\* (float) box / img
Fraction(box, img) == FDiv(I2F(box), I2F(img))

\* NoScaleNeeded with the test of options.upscale inverted
NoScaleNeeded_UpscaleInverted(options, width_fraction, height_fraction) ==
    /\ options.upscale
    /\ (options.fill_height \/ FGt(width_fraction, FOne))
    /\ (options.fill_width \/ FGt(height_fraction, FOne))

\* "If the image < screen, only upscale if do_upscale requested"
NoScaleNeeded(options, width_fraction, height_fraction) ==
    /\ ~options.upscale
    /\ (options.fill_height \/ FGt(width_fraction, FOne))
    /\ (options.fill_width \/ FGt(height_fraction, FOne))

\* the target of the short circuit: the image, twice as wide in quarter blocks
UnscaledTarget(options, img_width, img_height) ==
    IF options.cell_x_px = 2 THEN <<2 * img_width, img_height>>
    ELSE <<img_width, img_height>>

\* FillTarget with the letterbox case taking the larger fraction
FillTarget_LetterboxLarger(options, width_fraction, height_fraction, img_width, img_height) ==
    IF options.fill_width /\ options.fill_height
    THEN LET larger_fraction == IF FGt(width_fraction, height_fraction)
                                THEN width_fraction ELSE height_fraction
         IN  <<RoundF(FMul(larger_fraction, I2F(img_width))),
               RoundF(FMul(larger_fraction, I2F(img_height)))>>
    ELSE IF options.fill_height
    THEN <<RoundF(FMul(height_fraction, I2F(img_width))), options.height>>
    ELSE IF options.fill_width
    THEN <<options.width, RoundF(FMul(width_fraction, I2F(img_height)))>>
    ELSE LET smaller_fraction == IF FGt(width_fraction, height_fraction)
                                 THEN width_fraction ELSE height_fraction
         IN  <<RoundF(FMul(smaller_fraction, I2F(img_width))),
               RoundF(FMul(smaller_fraction, I2F(img_height)))>>

\* the target by fill policy, before the stretch is applied back
FillTarget(options, width_fraction, height_fraction, img_width, img_height) ==
    IF options.fill_width /\ options.fill_height
    THEN LET larger_fraction == IF FGt(width_fraction, height_fraction)
                                THEN width_fraction ELSE height_fraction
         IN  <<RoundF(FMul(larger_fraction, I2F(img_width))),
               RoundF(FMul(larger_fraction, I2F(img_height)))>>
    ELSE IF options.fill_height
    THEN <<RoundF(FMul(height_fraction, I2F(img_width))), options.height>>
    ELSE IF options.fill_width
    THEN <<options.width, RoundF(FMul(width_fraction, I2F(img_height)))>>
    ELSE LET smaller_fraction == IF FLt(width_fraction, height_fraction)
                                 THEN width_fraction ELSE height_fraction
         IN  <<RoundF(FMul(smaller_fraction, I2F(img_width))),
               RoundF(FMul(smaller_fraction, I2F(img_height)))>>

\* the stretch applied back to the axis StretchBox left alone
StretchTarget(target, width_stretch) ==
    IF FGt(width_stretch, FOne)
    THEN <<F2I(FMul(I2F(target[1]), width_stretch)), target[2]>>
    ELSE <<target[1], F2I(FDiv(I2F(target[2]), width_stretch))>>

\* QuantizeToCell without the quantization
QuantizeToCell_Skipped(options, target) == target

\* "floor() to next full character cell size but only if we in one of the
\* block modes"
QuantizeToCell(options, target) ==
    IF /\ options.cell_x_px > 0 /\ options.cell_x_px <= 2
       /\ options.cell_y_px > 0 /\ options.cell_y_px <= 2
    THEN <<(target[1] \div options.cell_x_px) * options.cell_x_px,
           (target[2] \div options.cell_y_px) * options.cell_y_px>>
    ELSE target

\* ClampToOne without the clamp
ClampToOne_Skipped(target) == target

\* "Don't scale down to nothing..."
ClampToOne(target) ==
    <<IF target[1] <= 0 THEN 1 ELSE target[1],
      IF target[2] <= 0 THEN 1 ELSE target[2]>>

\* aspect_correct: "Correct for aspect ratio mismatch of quarter rendering"
AspectCorrect(options) == IF options.cell_x_px = 2 THEN 2 ELSE 1

\* smaller_factor of the integer upscale
SmallerFactor(options, target, img_width, img_height) ==
    LET wf == FDiv(FDiv(FMul(FOne, I2F(target[1])), I2F(AspectCorrect(options))),
                   I2F(img_width))
        hf == FDiv(FMul(FOne, I2F(target[2])), I2F(img_height))
    IN  IF FLt(wf, hf) THEN wf ELSE hf

\* whether the integer upscale is entered at all
IntegerUpscaleWanted(options, target, img_width, img_height) ==
    options.upscale_integer /\ target[1] > img_width /\ target[2] > img_height

\* IntegerUpscaleApplies testing the floored factor
IntegerUpscaleApplies_Floored(smaller_factor) == FloorF(smaller_factor) > 1

\* whether the integer upscale replaces the target
IntegerUpscaleApplies(smaller_factor) == FGt(smaller_factor, FOne)

IntegerUpscale(options, target, img_width, img_height) ==
    IF IntegerUpscaleWanted(options, target, img_width, img_height)
    THEN LET smaller_factor ==
                 SmallerFactor(options, target, img_width, img_height)
         IN  IF IntegerUpscaleApplies(smaller_factor)
             THEN <<AspectCorrect(options) * FloorF(smaller_factor) * img_width,
                    FloorF(smaller_factor) * img_height>>
             ELSE target
    ELSE target

\* The whole function.  target_width, target_height and needs_scaling are
\* what the caller gets; the other fields record the path taken:
\*   stretch    the clamped width_stretch
\*   unscaled   the short circuit returned
\*   clamped    the target after the clamp to 1, before the integer upscale
CalcScaleToFitDisplay(img_width, img_height, orig_options, fit_in_rotated) ==
    LET rotated == RotateOptions(orig_options, fit_in_rotated)
        width_stretch == ClampStretch(rotated.width_stretch)
        options == StretchBox(rotated, width_stretch)
        width_fraction == Fraction(options.width, img_width)
        height_fraction == Fraction(options.height, img_height)
    IN  IF NoScaleNeeded(options, width_fraction, height_fraction)
        THEN LET t == UnscaledTarget(options, img_width, img_height)
             IN  [target_width |-> t[1], target_height |-> t[2],
                  needs_scaling |-> (options.cell_x_px = 2),
                  stretch |-> width_stretch, unscaled |-> TRUE, clamped |-> t]
        ELSE LET fill == FillTarget(options, width_fraction, height_fraction,
                                    img_width, img_height)
                 clamped == ClampToOne(QuantizeToCell(options,
                                StretchTarget(fill, width_stretch)))
                 t == IntegerUpscale(options, clamped, img_width, img_height)
             IN  [target_width |-> t[1], target_height |-> t[2],
                  needs_scaling |-> (t[1] # img_width \/ t[2] # img_height),
                  stretch |-> width_stretch, unscaled |-> FALSE,
                  clamped |-> clamped]

-----------------------------------------------------------------------------
(* The inputs the geometry is checked on *)

MaxImg == 3
MaxBox == 5

\* width_stretch values: inside the clamp range, on it and beyond it
Stretches ==
    {FDiv(I2F(q[1]), I2F(q[2])) :
        q \in {<<1, 8>>, <<1, 2>>, <<1, 1>>, <<3, 2>>, <<8, 1>>}}

\* <<cell_x_px, cell_y_px>>: the four block modes, and each bound of the
\* quantization guard failing on its own
CellSizes ==
    {<<1, 1>>, <<1, 2>>, <<2, 1>>, <<2, 2>>,
     <<0, 1>>, <<3, 1>>, <<2, 0>>, <<2, 3>>}

FitInputs ==
    [img_width : 1..MaxImg, img_height : 1..MaxImg,
     width : 1..MaxBox, height : 1..MaxBox,
     fill_width : BOOLEAN, fill_height : BOOLEAN,
     upscale : BOOLEAN, upscale_integer : BOOLEAN,
     width_stretch : Stretches,
     cell : CellSizes,
     fit_in_rotated : BOOLEAN]

OptionsOf(a) ==
    DisplayOptions(a.width, a.height, a.fill_width, a.fill_height, a.upscale,
                   a.upscale_integer, a.width_stretch, a.cell[1], a.cell[2])

NoArgs == <<>>
NoResult == <<>>

InitFit ==
    /\ fit_called = FALSE
    /\ args = NoArgs
    /\ res = NoResult

\* one call of CalcScaleToFitDisplay
CallFit ==
    /\ ~fit_called
    /\ \E a \in FitInputs :
          /\ args' = a
          /\ res' = CalcScaleToFitDisplay(a.img_width, a.img_height,
                                          OptionsOf(a), a.fit_in_rotated)
    /\ fit_called' = TRUE


\* the variables of CalcScaleToFitDisplay while another function is looked at
IdleFit ==
    /\ fit_called = FALSE
    /\ args = NoArgs
    /\ res = NoResult

-----------------------------------------------------------------------------
(* ImageSource::Create *)

VARIABLES
    build,          \* the backends compiled in (the WITH_TIMG_... macros)
    accepts,        \* the backends whose LoadAndScale succeeds on the file
    filename,       \* the file name, a sequence of characters
    attempt_image_loading,
    attempt_video_loading,
    pc,             \* where Create stands
    cursor,         \* the position in Order of the next block of Create
    fresh,          \* the candidate `new` has built and reset() has not stored
    result,         \* what the unique_ptr `result` holds
    alive,          \* the candidate instances constructed and not destroyed
    loads,          \* the backends whose LoadAndScale was called, in order
    returned,       \* what Create returned
    error,          \* *error
    fs              \* what stat() and access() found

createVars == <<build, accepts, filename, attempt_image_loading,
                attempt_video_loading, pc, cursor, fresh, result, alive,
                loads, returned, error, fs>>

nullptr == "nullptr"
Video == "Video"

\* Order with the last-resort STB backend moved to the front
Order_StbFirst ==
    <<"STB", "OpenSlide", "QOI", "JPEG", "SVG", "PDF", "GraphicsMagick", Video>>

\* the blocks of Create, top to bottom
Order ==
    <<"OpenSlide", "QOI", "JPEG", "SVG", "PDF", "GraphicsMagick", "STB", Video>>

Backends == {Order[i] : i \in 1..Len(Order)}

WITH_TIMG_VIDEO == Video \in build

\* whether the block at position i is compiled in and its `if` is entered
BlockRuns(i) ==
    /\ Order[i] \in build
    /\ IF Order[i] = Video THEN attempt_video_loading
       ELSE attempt_image_loading

\* the positions of the blocks still ahead that run
BlocksAhead == {i \in cursor..Len(Order) : BlockRuns(i)}

First(S) == CHOOSE i \in S : \A j \in S : i <= j

\* `new XSource(filename)`: the argument of result.reset() is evaluated
\* first, so the new candidate exists before the old one is destroyed
Construct ==
    /\ pc = "next"
    /\ BlocksAhead # {}
    /\ LET i == First(BlocksAhead)
       IN  /\ fresh' = Order[i]
           /\ alive' = alive \cup {Order[i]}
           /\ cursor' = i + 1
    /\ pc' = "reset"
    /\ UNCHANGED <<build, accepts, filename, attempt_image_loading,
                   attempt_video_loading, result, loads, returned, error, fs>>

\* reset() that forgets to destroy what it held
AfterReset_Leaking(live, old) == live

\* the instances left once unique_ptr::reset() has deleted what it held
AfterReset(live, old) == live \ {old}

\* result.reset(p): store the new candidate, delete the old one
Reset ==
    /\ pc = "reset"
    /\ result' = fresh
    /\ fresh' = nullptr
    /\ alive' = AfterReset(alive, result)
    /\ pc' = "load"
    /\ UNCHANGED <<build, accepts, filename, attempt_image_loading,
                   attempt_video_loading, cursor, loads, returned, error, fs>>

\* result->LoadAndScale(...) returns true: return result.release()
LoadSucceeds ==
    /\ pc = "load"
    /\ result \in accepts
    /\ loads' = Append(loads, result)
    /\ returned' = result
    /\ result' = nullptr
    /\ pc' = "done"
    /\ UNCHANGED <<build, accepts, filename, attempt_image_loading,
                   attempt_video_loading, cursor, fresh, alive, error, fs>>

\* result->LoadAndScale(...) returns false: fall through to the next block
LoadFails ==
    /\ pc = "load"
    /\ result \notin accepts
    /\ loads' = Append(loads, result)
    /\ pc' = "next"
    /\ UNCHANGED <<build, accepts, filename, attempt_image_loading,
                   attempt_video_loading, cursor, fresh, result, alive,
                   returned, error, fs>>

Dash == <<"-">>
DevStdin == <<"/", "d", "e", "v", "/", "s", "t", "d", "i", "n">>

\* tolower() on the characters that occur
ToLower(c) ==
    CASE c = "M" -> "m" [] c = "K" -> "k" [] c = "V" -> "v"
      [] c = "P" -> "p" [] c = "O" -> "o" [] c = "A" -> "a"
      [] c = "I" -> "i" [] c = "W" -> "w" [] c = "E" -> "e"
      [] c = "B" -> "b"
      [] OTHER -> c

VideoSuffixes ==
    <<  <<".", "m", "o", "v">>, <<".", "m", "p", "4">>,
        <<".", "m", "k", "v">>, <<".", "a", "v", "i">>,
        <<".", "w", "m", "v">>, <<".", "w", "e", "b", "m">>  >>

\* strcasecmp(end_filename - suffix_len, suffix) == 0
EndsWithNoCase(name, suffix) ==
    LET tail == SubSeq(name, Len(name) - Len(suffix) + 1, Len(name))
    IN  [k \in 1..Len(tail) |-> ToLower(tail[k])]
            = [k \in 1..Len(suffix) |-> ToLower(suffix[k])]

\* the suffix loop: a name shorter than the suffix is skipped
LooksLikeVideo(name) ==
    \E k \in 1..Len(VideoSuffixes) :
        /\ ~(Len(name) < Len(VideoSuffixes[k]))
        /\ EndsWithNoCase(name, VideoSuffixes[k])

\* what the file system says about the name
FsStates == {"missing", "directory", "unreadable", "readable"}

\* strerror(errno) after the failed call
StrError(state) ==
    IF state = "missing" THEN "No such file or directory"
    ELSE "Permission denied"

\* AccessError without the S_ISDIR branch
AccessError_DirectoryUnreported(err, name, state) ==
    IF name # Dash
    THEN IF state = "missing"
         THEN err \o name \o <<": ", StrError(state)>>
         ELSE IF state = "unreadable"
         THEN err \o name \o <<": ", StrError(state)>>
         ELSE err
    ELSE err

\* "Let's see if this is even an accessible file."
AccessError(err, name, state) ==
    IF name # Dash
    THEN IF state = "missing"
         THEN err \o name \o <<": ", StrError(state)>>
         ELSE IF state = "directory"
         THEN err \o name \o <<": is a directory">>
         ELSE IF state = "unreadable"
         THEN err \o name \o <<": ", StrError(state)>>
         ELSE err
    ELSE err

\* #ifdef WITH_TIMG_VIDEO: the hint for a video on stdin replaces the text
StdinHint(err, name) ==
    IF WITH_TIMG_VIDEO /\ (name = Dash \/ name = DevStdin)
    THEN <<"If this is a video on stdin, use '-V' to skip image probing">>
    ELSE err

\* #ifndef WITH_TIMG_VIDEO: the hint for a file that looks like a video
NoVideoHint(err, name) ==
    IF ~WITH_TIMG_VIDEO /\ err = <<>> /\ LooksLikeVideo(name)
    THEN err \o name \o <<": looks like a video file, but video support ",
                          "not compiled into this timg.">>
    ELSE err

\* no block is left: the diagnostics after the probing
Diagnose ==
    /\ pc = "next"
    /\ BlocksAhead = {}
    /\ \E state \in FsStates :
          /\ fs' = IF filename # Dash THEN state ELSE "unchecked"
          /\ error' = NoVideoHint(
                          StdinHint(AccessError(error, filename, state),
                                    filename),
                          filename)
    /\ pc' = "return"
    /\ UNCHANGED <<build, accepts, filename, attempt_image_loading,
                   attempt_video_loading, cursor, fresh, result, alive,
                   loads, returned>>

\* return nullptr: the unique_ptr's destructor deletes the last candidate
ReturnNull ==
    /\ pc = "return"
    /\ returned' = nullptr
    /\ alive' = AfterReset(alive, result)
    /\ result' = nullptr
    /\ pc' = "done"
    /\ UNCHANGED <<build, accepts, filename, attempt_image_loading,
                   attempt_video_loading, cursor, fresh, loads, error, fs>>

MaxOmitted == 1
MaxAccepting == 2

\* build configurations: all backends but at most MaxOmitted of them
Builds == {b \in SUBSET Backends : Cardinality(Backends \ b) <= MaxOmitted}

\* files: the sets of at most MaxAccepting backends that can decode one
Files == {a \in SUBSET Backends : Cardinality(a) <= MaxAccepting}

FileNames ==
    { Dash, DevStdin,
      <<"a", ".", "M", "k", "V">>,
      <<"a", ".", "p", "n", "g">>,
      <<"m", "p", "4">> }

InitCreate ==
    /\ build \in Builds
    /\ accepts \in Files
    /\ filename \in FileNames
    /\ attempt_image_loading \in BOOLEAN
    /\ attempt_video_loading \in BOOLEAN
    /\ pc = "next"
    /\ cursor = 1
    /\ fresh = nullptr
    /\ result = nullptr
    /\ alive = {}
    /\ loads = <<>>
    /\ returned = "pending"
    /\ error = <<>>
    /\ fs = "unchecked"

\* the Create variables while another function is looked at
IdleCreate ==
    /\ build = {}
    /\ accepts = {}
    /\ filename = <<>>
    /\ attempt_image_loading = FALSE
    /\ attempt_video_loading = FALSE
    /\ pc = "idle"
    /\ cursor = 1
    /\ fresh = nullptr
    /\ result = nullptr
    /\ alive = {}
    /\ loads = <<>>
    /\ returned = "pending"
    /\ error = <<>>
    /\ fs = "unchecked"

-----------------------------------------------------------------------------
(* ImageSource::FormatFromParameters *)

VARIABLES
    fmt_string,     \* the template, a sequence of characters
    fmt_filename,   \* the filename argument
    orig_width,
    orig_height,
    decoder,        \* the decoder name
    i,              \* the loop index, counted from 0 as in the code
    out,            \* the characters written to the stringstream `result`
    fmt_pc          \* "loop" while the for loop runs, "done" after the return

fmtVars == <<fmt_string, fmt_filename, orig_width, orig_height, decoder, i,
             out, fmt_pc>>

\* fmt_string[k] of the code: the model's sequences count from 1
At(s, k) == s[k + 1]

IsSlash(c) == c = "/" \/ c = "\\"

\* Basename that only knows the forward slash
Basename_ForwardSlashOnly(name) ==
    LET slashes == {k \in 1..Len(name) : name[k] = "/"}
    IN  IF slashes = {} THEN name
        ELSE LET last_slash_pos == CHOOSE k \in slashes :
                                       \A j \in slashes : j <= k
             IN  SubSeq(name, last_slash_pos + 1, Len(name))

\* find_last_of("/\\"), then the rest of the name or all of it
Basename(name) ==
    LET slashes == {k \in 1..Len(name) : IsSlash(name[k])}
    IN  IF slashes = {} THEN name
        ELSE LET last_slash_pos == CHOOSE k \in slashes :
                                       \A j \in slashes : j <= k
             IN  SubSeq(name, last_slash_pos + 1, Len(name))

Digits == <<"0", "1", "2", "3", "4", "5", "6", "7", "8", "9">>

\* operator<<(int): the decimal digits, most significant first
RECURSIVE ToDecimal(_)
ToDecimal(n) ==
    IF n < 0 THEN <<"-">> \o ToDecimal(-n)
    ELSE IF n < 10 THEN <<Digits[n + 1]>>
    ELSE ToDecimal(n \div 10) \o <<Digits[(n % 10) + 1]>>

\* the switch on the character after a '%'
Substitute(c) ==
    CASE c = "f" -> fmt_filename
      [] c = "b" -> Basename(fmt_filename)
      [] c = "w" -> ToDecimal(orig_width)
      [] c = "h" -> ToDecimal(orig_height)
      [] c = "D" -> decoder
      [] OTHER -> <<c>>

\* one iteration of the for loop, its ++i included
FormatStep ==
    /\ fmt_pc = "loop"
    /\ i < Len(fmt_string)
    /\ \/ /\ At(fmt_string, i) # "%" \/ i >= Len(fmt_string) - 1
          /\ out' = out \o <<At(fmt_string, i)>>
          /\ i' = i + 1
       \/ /\ ~(At(fmt_string, i) # "%" \/ i >= Len(fmt_string) - 1)
          /\ out' = out \o Substitute(At(fmt_string, i + 1))
          /\ i' = i + 2
    /\ UNCHANGED <<fmt_string, fmt_filename, orig_width, orig_height, decoder,
                   fmt_pc>>

\* the loop condition fails: return result.str()
FormatReturn ==
    /\ fmt_pc = "loop"
    /\ ~(i < Len(fmt_string))
    /\ fmt_pc' = "done"
    /\ UNCHANGED <<fmt_string, fmt_filename, orig_width, orig_height, decoder,
                   i, out>>

MaxFmtLen == 3

FmtAlphabet == {"%", "f", "b", "w", "h", "D", "x"}

Templates ==
    UNION {[1..n -> FmtAlphabet] : n \in 0..MaxFmtLen}

\* names with and without directories, with either separator, ending in
\* one, and with text that looks like an escape
FmtFileNames ==
    { <<"c">>,
      <<"d", "/", "e", "/", "c">>,
      <<"d", "/", "%", "w", "\\", "%", "b">>,
      <<"d", "/">> }

\* <<orig_width, orig_height>>
FmtSizes == { <<7, 120>>, <<1024, 0>> }

InitFormat ==
    /\ fmt_string \in Templates
    /\ fmt_filename \in FmtFileNames
    /\ \E size \in FmtSizes : orig_width = size[1] /\ orig_height = size[2]
    /\ decoder = <<"s", "t", "b">>
    /\ i = 0
    /\ out = <<>>
    /\ fmt_pc = "loop"

\* the variables of FormatFromParameters while another function is looked at
IdleFormat ==
    /\ fmt_string = <<>>
    /\ fmt_filename = <<>>
    /\ orig_width = 0
    /\ orig_height = 0
    /\ decoder = <<>>
    /\ i = 0
    /\ out = <<>>
    /\ fmt_pc = "idle"

-----------------------------------------------------------------------------
(* HasAPNGHeader *)

VARIABLES
    size_t_bits,        \* the width of size_t on the platform: 32 or 64
    file,               \* what pread() has returned, by offset
    pos,                \* the offset, as <<pos \div 2^16, pos % 2^16>>
    found_actl_header,
    reads,              \* the number of pread() calls made
    png_pc,             \* "open", "loop", "close", "done"
    png_result          \* the value returned

pngVars == <<size_t_bits, file, pos, found_actl_header, reads, png_pc,
             png_result>>

kPngHeaderLen == 8

P16 == 2^16

\* ntohl(*(uint32_t *)buf): the first four bytes, big-endian, as
\* <<upper 16 bits, lower 16 bits>>
Ntohl(buf) == <<buf[1] * 256 + buf[2], buf[3] * 256 + buf[4]>>

\* len + 12 in uint32_t arithmetic
PlusTwelve(len) ==
    LET lo == len[2] + 12
    IN  <<(len[1] + lo \div P16) % P16, lo % P16>>

\* pos += n for a size_t pos and a uint32_t n
Advance(p, n) ==
    LET lo == p[2] + n[2]
        hi == p[1] + n[1] + lo \div P16
    IN  <<IF size_t_bits = 32 THEN hi % P16 ELSE hi, lo % P16>>

\* pos < 1024
InFirstKibibyte(p) == p[1] = 0 /\ p[2] < 1024

\* a < b for offsets
OffsetLess(a, b) == a[1] < b[1] \/ (a[1] = b[1] /\ a[2] < b[2])

\* the length fields a chunk header may declare (four bytes, big-endian):
\* 244, 500, 1012, 2^31, 2^32 - 13, 2^32 - 12, 2^32 - 1
DeclaredLengths ==
    { <<0, 0, 0, 244>>, <<0, 0, 1, 244>>, <<0, 0, 3, 244>>,
      <<128, 0, 0, 0>>,
      <<255, 255, 255, 243>>, <<255, 255, 255, 244>>,
      <<255, 255, 255, 255>> }

\* what pread(fd, buf, 8, pos) can give: eight bytes (the length and whether
\* the type is "acTL"), or fewer, or an error
ShortRead == [full |-> FALSE, len |-> <<0, 0, 0, 0>>, actl |-> FALSE]

ReadOutcomes ==
    [full : {TRUE}, len : DeclaredLengths, actl : BOOLEAN] \cup {ShortRead}

\* open() fails: return false
OpenFails ==
    /\ png_pc = "open"
    /\ png_result' = FALSE
    /\ png_pc' = "done"
    /\ UNCHANGED <<size_t_bits, file, pos, found_actl_header, reads>>

\* open() succeeds
OpenSucceeds ==
    /\ png_pc = "open"
    /\ png_pc' = "loop"
    /\ UNCHANGED <<size_t_bits, file, pos, found_actl_header, reads,
                   png_result>>

MaxReads == 6

\* the bytes at offset p: those read before, or any
BytesAt(p) ==
    IF \E r \in file : r.at = p
    THEN {r.got : r \in {q \in file : q.at = p}}
    ELSE ReadOutcomes

\* one iteration of the while loop
ReadChunk ==
    /\ png_pc = "loop"
    /\ ~found_actl_header /\ InFirstKibibyte(pos)
    /\ reads < MaxReads
    /\ reads' = reads + 1
    /\ \E got \in BytesAt(pos) :
          /\ file' = file \cup {[at |-> pos, got |-> got]}
          /\ IF ~got.full
             THEN /\ png_pc' = "close"
                  /\ UNCHANGED <<pos, found_actl_header>>
             ELSE /\ found_actl_header' = got.actl
                  /\ pos' = Advance(pos, PlusTwelve(Ntohl(got.len)))
                  /\ png_pc' = "loop"
    /\ UNCHANGED <<size_t_bits, png_result>>

\* the loop condition fails
LoopEnds ==
    /\ png_pc = "loop"
    /\ ~(~found_actl_header /\ InFirstKibibyte(pos))
    /\ png_pc' = "close"
    /\ UNCHANGED <<size_t_bits, file, pos, found_actl_header, reads,
                   png_result>>

\* close(fd); return found_actl_header
CloseAndReturn ==
    /\ png_pc = "close"
    /\ png_result' = found_actl_header
    /\ png_pc' = "done"
    /\ UNCHANGED <<size_t_bits, file, pos, found_actl_header, reads>>

InitPng ==
    /\ size_t_bits \in {32, 64}
    /\ file = {}
    /\ pos = <<0, kPngHeaderLen>>
    /\ found_actl_header = FALSE
    /\ reads = 0
    /\ png_pc = "open"
    /\ png_result = FALSE

\* the variables of HasAPNGHeader while another function is looked at
IdlePng ==
    /\ size_t_bits = 64
    /\ file = {}
    /\ pos = <<0, kPngHeaderLen>>
    /\ found_actl_header = FALSE
    /\ reads = 0
    /\ png_pc = "idle"
    /\ png_result = FALSE

-----------------------------------------------------------------------------
(* Specifications: one per function *)

vars == <<fitVars, createVars, fmtVars, pngVars>>

\* CalcScaleToFitDisplay
InitSpecFit == InitFit /\ IdleCreate /\ IdleFormat /\ IdlePng

NextFit == CallFit /\ UNCHANGED <<createVars, fmtVars, pngVars>>

SpecFit == InitSpecFit /\ [][NextFit]_vars

\* Create
InitSpecCreate == IdleFit /\ InitCreate /\ IdleFormat /\ IdlePng

NextCreate ==
    \/ Construct /\ UNCHANGED <<fitVars, fmtVars, pngVars>>
    \/ Reset /\ UNCHANGED <<fitVars, fmtVars, pngVars>>
    \/ LoadSucceeds /\ UNCHANGED <<fitVars, fmtVars, pngVars>>
    \/ LoadFails /\ UNCHANGED <<fitVars, fmtVars, pngVars>>
    \/ Diagnose /\ UNCHANGED <<fitVars, fmtVars, pngVars>>
    \/ ReturnNull /\ UNCHANGED <<fitVars, fmtVars, pngVars>>

SpecCreate == InitSpecCreate /\ [][NextCreate]_vars

\* FormatFromParameters
InitSpecFormat == IdleFit /\ IdleCreate /\ InitFormat /\ IdlePng

NextFormat ==
    \/ FormatStep /\ UNCHANGED <<fitVars, createVars, pngVars>>
    \/ FormatReturn /\ UNCHANGED <<fitVars, createVars, pngVars>>

SpecFormat == InitSpecFormat /\ [][NextFormat]_vars

\* HasAPNGHeader
InitSpecPng == IdleFit /\ IdleCreate /\ IdleFormat /\ InitPng

NextPng ==
    \/ OpenFails /\ UNCHANGED <<fitVars, createVars, fmtVars>>
    \/ OpenSucceeds /\ UNCHANGED <<fitVars, createVars, fmtVars>>
    \/ ReadChunk /\ UNCHANGED <<fitVars, createVars, fmtVars>>
    \/ LoopEnds /\ UNCHANGED <<fitVars, createVars, fmtVars>>
    \/ CloseAndReturn /\ UNCHANGED <<fitVars, createVars, fmtVars>>

SpecPng == InitSpecPng /\ [][NextPng]_vars

-----------------------------------------------------------------------------
(* Properties of CalcScaleToFitDisplay, checked under SpecFit *)

Min(a, b) == IF a < b THEN a ELSE b

\* the letterbox policy without upscaling, fitting unrotated
Letterbox ==
    /\ fit_called
    /\ ~args.fill_width /\ ~args.fill_height /\ ~args.upscale
    /\ ~args.fit_in_rotated

\* C1, as claimed: a letterbox fit (fill_width = fill_height = upscale = FALSE,
\* fit_in_rotated = FALSE) never overflows the box, for every width_stretch
\* and every cell size.
C1_LetterboxNeverOverflows ==
    Letterbox =>
        /\ res.target_width <= args.width
        /\ res.target_height <= args.height

\* C1, amended: a letterbox fit never overflows the box in height, and in
\* width only when the no-scale short circuit returns in quarter-block mode
\* (cell_x_px = 2), where the width is twice the image's.
C1_LetterboxFitsButForDoubling ==
    Letterbox =>
        /\ res.target_height <= args.height
        /\ \/ res.target_width <= args.width
           \/ /\ res.unscaled
              /\ args.cell[1] = 2
              /\ res.target_width = 2 * args.img_width

\* C1 witness: a letterbox fit that scaled a too-large image down to the box
C1_Witness ==
    /\ Letterbox
    /\ ~res.unscaled
    /\ args.img_width > args.width
    /\ res.target_width = args.width
    /\ res.target_height < args.img_height

BlockMode == args.cell[1] \in {1, 2} /\ args.cell[2] \in {1, 2}

\* C2, as claimed: with cell_x_px and cell_y_px in {1, 2} the result is a
\* multiple of the cell size on both axes, on every return path.
C2_QuantizedOnEveryPath ==
    fit_called /\ BlockMode =>
        /\ res.target_width % args.cell[1] = 0
        /\ res.target_height % args.cell[2] = 0

\* C2, amended: with cell sizes in {1, 2} the width is a multiple of
\* cell_x_px unless the clamp raised it to 1; the height is a multiple of
\* cell_y_px unless the clamp raised it to 1, the short circuit returned the
\* image height, or the integer upscale replaced the target.
C2_QuantizedUnlessBypassed ==
    fit_called /\ BlockMode =>
        /\ res.target_width % args.cell[1] = 0 \/ res.target_width = 1
        /\ \/ res.target_height % args.cell[2] = 0
           \/ res.target_height = 1
           \/ res.unscaled
           \/ <<res.target_width, res.target_height>> # res.clamped

\* C2 witness: an odd box height was cut down to the next multiple of 2
C2_Witness ==
    /\ fit_called
    /\ args.cell = <<2, 2>>
    /\ args.fill_height /\ ~args.fit_in_rotated /\ ~res.unscaled
    /\ res.stretch = FOne
    /\ args.height % 2 = 1
    /\ res.target_height = args.height - 1
    /\ res.target_height >= 2
    /\ <<res.target_width, res.target_height>> = res.clamped

\* C3: both target dimensions are at least 1 on every path.
C3_AtLeastOne ==
    fit_called => res.target_width >= 1 /\ res.target_height >= 1

\* C3 witness: quantization had left nothing and the clamp made it 1 x 1
C3_Witness ==
    /\ fit_called
    /\ args.cell = <<2, 2>>
    /\ ~res.unscaled
    /\ res.target_width = 1 /\ res.target_height = 1

\* the integer upscale is entered: upscale_integer, and the clamped target
\* exceeds the image on both axes
IntegerUpscaleEntered ==
    /\ fit_called
    /\ ~res.unscaled
    /\ args.upscale_integer
    /\ res.clamped[1] > args.img_width
    /\ res.clamped[2] > args.img_height

aspect_correct == IF args.cell[1] = 2 THEN 2 ELSE 1

\* floor(f) for f = min(target_width / aspect_correct / img_width,
\* target_height / img_height), in exact integer arithmetic
FlooredFactor ==
    Min(res.clamped[1] \div (aspect_correct * args.img_width),
        res.clamped[2] \div args.img_height)

\* f > 1, in exact integer arithmetic
FactorAboveOne ==
    /\ res.clamped[1] > aspect_correct * args.img_width
    /\ res.clamped[2] > args.img_height

\* C8, as claimed: the recomputation is gated on the floored factor, so with
\* floor(f) <= 1 the target of the preceding steps is returned unchanged.
C8_GatedOnFlooredFactor ==
    IntegerUpscaleEntered =>
        IF FlooredFactor > 1
        THEN /\ res.target_width =
                    aspect_correct * FlooredFactor * args.img_width
             /\ res.target_height = FlooredFactor * args.img_height
        ELSE <<res.target_width, res.target_height>> = res.clamped

\* C8, amended: the recomputation is gated on the factor itself: whenever
\* f > 1 the target becomes (aspect_correct * floor(f) * img_width,
\* floor(f) * img_height), which for 1 < f < 2 is the image at factor 1;
\* only with f <= 1 is the target returned unchanged.
C8_GatedOnFactor ==
    IntegerUpscaleEntered =>
        IF FactorAboveOne
        THEN /\ res.target_width =
                    aspect_correct * FlooredFactor * args.img_width
             /\ res.target_height = FlooredFactor * args.img_height
        ELSE <<res.target_width, res.target_height>> = res.clamped

\* C8 witness: a factor strictly between 1 and 2 brought the target back to
\* the image's own size
C8_Witness ==
    /\ IntegerUpscaleEntered
    /\ FactorAboveOne
    /\ FlooredFactor = 1
    /\ res.target_width = aspect_correct * args.img_width
    /\ res.target_height = args.img_height
    /\ <<res.target_width, res.target_height>> # res.clamped

\* the stretch the call works with is the one it was given (no clamping)
StretchInRange ==
    res.stretch = RotateOptions(OptionsOf(args), args.fit_in_rotated).width_stretch

NoUpscale == fit_called /\ ~args.upscale /\ args.cell[1] # 2

\* C9, as claimed: with upscale = FALSE and cell_x_px # 2 the target is no
\* larger than the image on either axis, for every stretch in the clamped
\* range.
C9_NeverEnlarged ==
    NoUpscale /\ StretchInRange =>
        /\ res.target_width <= args.img_width
        /\ res.target_height <= args.img_height

\* C9, amended: with upscale = FALSE and cell_x_px # 2 the axis the stretch
\* is not applied back to is no larger than the image's, and the other axis
\* is no larger than the image's with the stretch applied; with a stretch
\* of 1 neither axis is enlarged.
C9_EnlargedOnlyByStretch ==
    NoUpscale =>
        IF FGt(res.stretch, FOne)
        THEN /\ res.target_height <= args.img_height
             /\ res.target_width <=
                    F2I(FMul(I2F(args.img_width), res.stretch))
        ELSE /\ res.target_width <= args.img_width
             /\ res.target_height <=
                    F2I(FDiv(I2F(args.img_height), res.stretch))

\* C9 witness: without upscaling, a stretch of 3/2 made the target wider
\* than the image
C9_Witness ==
    /\ NoUpscale
    /\ StretchInRange
    /\ res.stretch = FDiv(I2F(3), I2F(2))
    /\ res.target_width > args.img_width
    /\ res.target_height <= args.img_height

-----------------------------------------------------------------------------
(* Properties of Create, checked under SpecCreate *)

\* the priority order of the backends, first to last
PriorityOrder ==
    <<"OpenSlide", "QOI", "JPEG", "SVG", "PDF", "GraphicsMagick", "STB",
      "Video">>

Priority(b) == CHOOSE k \in 1..Len(PriorityOrder) : PriorityOrder[k] = b

\* the backends this call may try: compiled in, and asked for by its flag
Configured ==
    {b \in build : IF b = "Video" THEN attempt_video_loading
                   ELSE attempt_image_loading}

\* the configured backends that accept the file
Willing == Configured \cap accepts

Finished == pc = "done"

\* C4: the backends are tried in priority order, each at most once and only
\* if configured; nothing is tried after a success; the handle returned is
\* that of the first configured backend that accepts the file, and no handle
\* is returned only after every configured backend was tried and failed.
C4_FirstSuccessInOrder ==
    /\ \A j, k \in 1..Len(loads) :
          j < k => Priority(loads[j]) < Priority(loads[k])
    /\ \A k \in 1..Len(loads) : loads[k] \in Configured
    /\ \A k \in 1..(Len(loads) - 1) : loads[k] \notin accepts
    /\ (Len(loads) > 0 /\ loads[Len(loads)] \in accepts) =>
          Finished /\ returned = loads[Len(loads)]
    /\ (Finished /\ returned # nullptr) =>
          /\ returned \in Willing
          /\ \A b \in Willing : Priority(returned) <= Priority(b)
    /\ (Finished /\ returned = nullptr) =>
          /\ Willing = {}
          /\ Configured = {loads[k] : k \in 1..Len(loads)}

\* C4 witness: two configured backends accept the file, one failed before,
\* and the earlier of the two was returned without the later being tried
C4_Witness ==
    /\ Finished
    /\ returned \in Backends
    /\ Len(loads) >= 2
    /\ \E b \in Willing :
          /\ Priority(returned) < Priority(b)
          /\ \A k \in 1..Len(loads) : loads[k] # b

\* the names of FileNames that end in a video suffix, whatever the case
VideoNames == { <<"a", ".", "M", "k", "V">> }

\* the cases in which Create has something to say about the failure
Diagnosed ==
    \/ filename # Dash /\ fs \in {"missing", "directory", "unreadable"}
    \/ "Video" \in build /\ filename \in {Dash, DevStdin}
    \/ "Video" \notin build /\ filename \in VideoNames

\* C5, as claimed: a call returns a handle and leaves the (empty) error
\* string alone, or returns no handle and a non-empty error string.
C5_ErrorOnEveryFailure ==
    Finished =>
        IF returned # nullptr
        THEN returned \in Backends /\ error = <<>>
        ELSE error # <<>>

\* C5, amended: a call returns a handle and leaves the error string alone,
\* or returns no handle; the error string is then non-empty exactly when the
\* file is missing, a directory or unreadable, or video support is compiled
\* in and the name is "-" or "/dev/stdin", or it is not compiled in and the
\* name ends in a video suffix.  A readable file that no backend decodes
\* gets no error text.
C5_ErrorOnlyWhenDiagnosed ==
    Finished =>
        IF returned # nullptr
        THEN returned \in Backends /\ error = <<>>
        ELSE error # <<>> <=> Diagnosed

\* C5 witness: every backend tried declined a readable file, and Create
\* returned no handle and no error text
C5_Witness ==
    /\ Finished
    /\ returned = nullptr
    /\ Len(loads) >= 2
    /\ fs = "readable"
    /\ error = <<>>

\* C10: when LoadAndScale is called the candidate it is called on is the
\* only one alive; after a return without a handle none is alive; after a
\* return with a handle only the returned one is, and `result` has let go
\* of it.
C10_OneCandidateAtATime ==
    /\ pc = "load" =>
          /\ alive = {result}
          /\ \A k \in 1..Len(loads) : loads[k] \notin alive
    /\ (Finished /\ returned = nullptr) => alive = {}
    /\ (Finished /\ returned # nullptr) =>
          alive = {returned} /\ result = nullptr

\* C10 witness: LoadAndScale is about to be called on a third candidate
C10_Witness ==
    /\ pc = "load"
    /\ Len(loads) = 2
    /\ alive = {result}

-----------------------------------------------------------------------------
(* Properties of FormatFromParameters, checked under SpecFormat *)

\* the text after the last '/' or '\', or the whole name: the longest
\* suffix of the name without a separator
TextAfterLastSlash(name) ==
    LET clean(n) == \A k \in (Len(name) - n + 1)..Len(name) :
                        name[k] # "/" /\ name[k] # "\\"
        n == CHOOSE m \in 0..Len(name) :
                 clean(m) /\ \A l \in 0..Len(name) : clean(l) => l <= m
    IN  SubSeq(name, Len(name) - n + 1, Len(name))

\* what the escape %c stands for
Escape(c) ==
    IF c = "f" THEN fmt_filename
    ELSE IF c = "b" THEN TextAfterLastSlash(fmt_filename)
    ELSE IF c = "w" THEN ToDecimal(orig_width)
    ELSE IF c = "h" THEN ToDecimal(orig_height)
    ELSE IF c = "D" THEN decoder
    ELSE <<c>>

\* the single left-to-right expansion of a template
RECURSIVE Expansion(_)
Expansion(t) ==
    IF t = <<>> THEN <<>>
    ELSE IF Head(t) = "%" /\ Len(t) >= 2
    THEN Escape(t[2]) \o Expansion(SubSeq(t, 3, Len(t)))
    ELSE <<Head(t)>> \o Expansion(Tail(t))

\* C7: FormatFromParameters returns the single left-to-right expansion of
\* the template: a '%' that is not last consumes the next character and
\* stands for the filename, basename, width, height, decoder or that
\* character; everything else, a last '%' included, stands for itself, and
\* substituted text is not scanned again.
C7_IsTheExpansion ==
    fmt_pc = "done" => out = Expansion(fmt_string)

\* C7 witness: "%%f" gave "%f" and not the filename
C7_Witness ==
    /\ fmt_pc = "done"
    /\ fmt_string = <<"%", "%", "f">>
    /\ out = <<"%", "f">>

-----------------------------------------------------------------------------
(* Properties of HasAPNGHeader, checked under SpecPng *)

\* C6: every iteration of the scan that does not find the acTL marker, and
\* goes on, has strictly increased the offset (here where size_t has 64
\* bits, so that only the 32 bit sum of length and 12 can wrap).
C6_OffsetStrictlyIncreases ==
    [][(/\ size_t_bits = 64
        /\ png_pc = "loop" /\ png_pc' = "loop"
        /\ reads' = reads + 1
        /\ ~found_actl_header')
            => OffsetLess(pos, pos')]_vars

=============================================================================
